---- MODULE Spec2Model ----
(***************************************************************************)
(* A model of the multispool engine (src/src/spool.rs): Spool, SpoolSet    *)
(* and MultiSpool over their sled stores, with the Ed25519 checks of the   *)
(* MultiSpool operations.                                                  *)
(*                                                                         *)
(* The sled stores are modelled by their contents: a tree (and the        *)
(* HashMap of the MultiSpool) is a set of <<key, value>> pairs with at     *)
(* most one pair per key.  An Option<T> is the empty sequence (None) or a  *)
(* one-element sequence (Some(x)).  Message ids and the END_KEY value are  *)
(* four-byte big-endian strings, modelled as 4-tuples of bytes.            *)
(***************************************************************************)
EXTENDS Integers, Sequences, FiniteSets, TLC

\* ------------------------------------------------------------------ bounds

\* The largest sequence number an append may assign in the model.
MaxLastKey == 1

\* The largest number of merges the END_KEY of one spool takes in the model.
MaxMerges == 3

\* ------------------------------------------------------- program constants

\* The sequence counter is a u32 (last_key: Option<u32>).  TLC's integers are
\* 32-bit signed, so a u32 is kept as its two 16-bit halves, [hi, lo], of
\* value hi * HalfModulus + lo.
HalfModulus == 65536

\* The number of values of a byte.
ByteModulus == 256

\* ------------------------------------------------------------ input domains

\* The spool ids the random generator can draw ([u8; SPOOL_ID_SIZE]).
SpoolIds == {"idA", "idB"}

\* Ed25519 public keys.
PublicKeys == {"alice", "bob"}

\* Messages ([u8; MESSAGE_SIZE]).
Messages == {"m1", "m2"}

\* ------------------------------------------------------------------ options

None == <<>>

Some(x) == <<x>>

\* -------------------------------------------------------------------- trees

\* The keys of a tree (Tree::iter().keys(), HashMap::keys).
Keys(t) == { p[1] : p \in t }

\* Tree::contains_key.
Has(t, k) == k \in Keys(t)

\* Tree::get of a key the tree holds.
Get(t, k) == (CHOOSE p \in t : p[1] = k)[2]

\* Tree::del, HashMap::remove.
Del(t, k) == { p \in t : p[1] # k }

\* Tree::set, HashMap::insert: the value of k is replaced.
Set(t, k, v) == Del(t, k) \cup { <<k, v>> }

\* ------------------------------------------------------------- byte strings

\* The u32 of value n, for n below 2^31.
U32(n) == [hi |-> n \div HalfModulus, lo |-> n % HalfModulus]

\* The u32 increment (last_key + 1), wrapping at u32::MAX.
Inc32(x) ==
    IF x.lo = HalfModulus - 1
    THEN [hi |-> (x.hi + 1) % HalfModulus, lo |-> 0]
    ELSE [hi |-> x.hi, lo |-> x.lo + 1]

\* u32::MAX.
U32Max == [hi |-> HalfModulus - 1, lo |-> HalfModulus - 1]

\* The u32 before x, for x above 0.
Dec32(x) ==
    IF x.lo = 0 THEN [hi |-> x.hi - 1, lo |-> HalfModulus - 1]
    ELSE [hi |-> x.hi, lo |-> x.lo - 1]

\* The order of u32 values: a > b.
Gt32(a, b) == a.hi > b.hi \/ (a.hi = b.hi /\ a.lo > b.lo)

\* BigEndian::write_u32: the four bytes of x, most significant first.
be32(x) ==
    << x.hi \div ByteModulus, x.hi % ByteModulus,
       x.lo \div ByteModulus, x.lo % ByteModulus >>

\* BigEndian::read_u32.
read_u32(b) ==
    [hi |-> b[1] * ByteModulus + b[2], lo |-> b[3] * ByteModulus + b[4]]

\* The message ids a client may ask for: every position the model can write,
\* the one after, and the byte-swapped encoding of 1.
MessageIds == { be32(U32(k)) : k \in 0 .. (MaxLastKey + 1) } \cup { <<1, 0, 0, 0>> }

\* ---------------------------------------------------------------- Ed25519

\* PublicKey::to_bytes: the byte string that encodes the key.
to_bytes(pk) == << pk >>

\* PublicKey::from_bytes, on bytes that to_bytes produced.
from_bytes(bytes) == bytes[1]

\* A signature made with the private half of `signer` over `bytes`.
Sign(signer, bytes) == [signer |-> signer, bytes |-> bytes]

\* The signatures a client may present: every key signing its own bytes, and
\* one key signing the bytes of another.
Signatures ==
    { Sign(k, to_bytes(k)) : k \in PublicKeys } \cup { Sign("bob", to_bytes("alice")) }

\* A verification that does not bind the signature to the key.
VerifyBytesOnly(pk, bytes, sig) == sig.bytes = bytes

\* A verification that does not bind the signature to the signed bytes.
VerifySignerOnly(pk, bytes, sig) == sig.signer = pk

\* A verification that accepts every signature.
VerifyAlways(pk, bytes, sig) == TRUE

\* PublicKey::verify(message, signature): an unforgeable signature scheme.
Verify(pk, bytes, sig) == sig.signer = pk /\ sig.bytes = bytes

\* ------------------------------------------------------------------- state

VARIABLES
    ss_db,       \* SpoolSet primary tree: the set of its keys (values are empty)
    ss_meta,     \* SpoolSet metadata tree: spool id -> public key bytes
    dirs,        \* the spool ids whose directory base_dir/spool.<b64(id)>.sled exists
    db,          \* per spool path, the data tree: message id -> message
    meta,        \* per spool path, the metadata tree's END_KEY value (an option)
    map,         \* MultiSpool.map: spool id -> Spool (its last_key)
    log,         \* history: per spool id, the appends that returned Ok since the
                 \* spool was created, each with the sequence number it was given
    result       \* the last completed call: its arguments and what it returned

vars == << ss_db, ss_meta, dirs, db, meta, map, log, result >>

disk == << ss_db, ss_meta, dirs, db, meta >>

\* The record of a completed call.
Res(op, id, pk, sig, mid, msg, status, value) ==
    [op |-> op, id |-> id, pk |-> pk, sig |-> sig, mid |-> mid, msg |-> msg,
     status |-> status, value |-> value]

NoId == "-"

NoKey == "-"

NoSig == Sign("-", to_bytes("-"))

NoMid == <<>>

NoMsg == "-"

\* -------------------------------------------------------------------- Spool

\* A merge in which the last writer wins.
MergeLastWins(old_value, new_value) == new_value

\* increment_merge: the merge operator of the END_KEY.
increment_merge(old_value, new_value) ==
    IF old_value # None
    THEN LET old == read_u32(old_value[1])
             new == read_u32(new_value)
         IN  IF old = new THEN old_value[1]
             ELSE IF Gt32(old, new) THEN old_value[1]
             ELSE new_value
    ELSE new_value

\* The loop of Spool::ensure_consistency, from last_key = k: advance while the
\* data tree holds the next key.
RECURSIVE RepairLoop(_, _)
RepairLoop(d, k) ==
    IF Has(d, be32(Inc32(k))) THEN RepairLoop(d, Inc32(k)) ELSE k

\* Spool::ensure_consistency: the END_KEY value it leaves.
SpoolEnsureConsistency(d, end_key) ==
    IF end_key = None THEN None
    ELSE Some(be32(RepairLoop(d, read_u32(end_key[1]))))

\* Spool::ensure_consistency: the Result it returns.  The END_KEY is read
\* twice, and nothing writes between the two reads: the second read answers
\* as the first did.
EnsureConsistencyResult(d, end_key) ==
    IF end_key = None THEN "Ok"
    ELSE LET _raw_last_key_option == end_key
         IN  IF _raw_last_key_option = None /\ d # {}
             THEN "SpoolError(CorruptSpool)"
             ELSE "Ok"

\* An open that does not read the END_KEY back: the Spool starts at None.
SpoolNewForgets(d, end_key) ==
    [meta |-> end_key, spool |-> [last_key |-> None]]

\* Spool::new over the trees found at the path: the END_KEY value it leaves
\* and the Spool it returns.
SpoolNew(d, end_key) ==
    LET end_key_res == SpoolEnsureConsistency(d, end_key)
    IN  [meta |-> end_key_res,
         spool |-> [last_key |-> IF end_key_res = None THEN None
                                 ELSE Some(read_u32(end_key_res[1]))]]

\* An append whose first sequence number is 1.
NextKeyFromOne(last_key) ==
    IF last_key # None THEN Inc32(last_key[1]) ELSE U32(1)

\* Spool::append: the sequence number the append assigns.
NextKey(last_key) ==
    IF last_key # None THEN Inc32(last_key[1]) ELSE U32(0)

\* Spool::append: the Spool and its trees after the append.
SpoolAppend(spool, d, end_key, message) ==
    LET next == NextKey(spool.last_key)
        _last_key == be32(next)
    IN  [spool |-> [last_key |-> Some(next)],
         db |-> Set(d, _last_key, message),
         meta |-> Some(increment_merge(end_key, _last_key))]

\* A read that answers for a missing key with a blank message.
SpoolReadBlank(d, message_id) ==
    [status |-> "Ok",
     value |-> Some(IF Has(d, message_id) THEN Get(d, message_id) ELSE NoMsg)]

\* Spool::read.
SpoolRead(d, message_id) ==
    IF Has(d, message_id)
    THEN [status |-> "Ok", value |-> Some(Get(d, message_id))]
    ELSE [status |-> "SpoolError(NoSuchMessage)", value |-> None]

\* Spool::purge: the metadata tree is dropped, the data tree cleared.
SpoolPurge(spool) ==
    [spool |-> [last_key |-> Some(U32(0))], db |-> {}, meta |-> None]

\* ----------------------------------------------------------------- SpoolSet

\* A repair that runs the first loop only: the metadata tree is left alone.
SpoolSetRepairPrimaryOnly(prim, mta) ==
    [db |-> prim \cap Keys(mta), meta |-> mta]

\* SpoolSet::ensure_consistency: keys of one tree missing in the other go.
SpoolSetEnsureConsistency(prim, mta) ==
    LET keep == prim \cap Keys(mta)
    IN  [db |-> keep, meta |-> { p \in mta : p[1] \in keep }]

\* A put that writes the metadata tree only.
SpoolSetPutMetaOnly(prim, mta, spool_id, public_key) ==
    [db |-> prim, meta |-> Set(mta, spool_id, to_bytes(public_key))]

\* SpoolSet::put.
SpoolSetPut(prim, mta, spool_id, public_key) ==
    [db |-> prim \cup {spool_id}, meta |-> Set(mta, spool_id, to_bytes(public_key))]

\* A delete that clears both trees.
SpoolSetDeleteClears(prim, mta, spool_id) ==
    [db |-> {}, meta |-> {}]

\* A delete that removes the id from the primary tree only.
SpoolSetDeletePrimaryOnly(prim, mta, spool_id) ==
    [db |-> prim \ {spool_id}, meta |-> mta]

\* SpoolSet::delete.
SpoolSetDelete(prim, mta, spool_id) ==
    [db |-> prim \ {spool_id}, meta |-> Del(mta, spool_id)]

\* SpoolSet::get_public_key.
GetPublicKey(mta, spool_id) ==
    IF Has(mta, spool_id)
    THEN [status |-> "Ok", key |-> from_bytes(Get(mta, spool_id))]
    ELSE [status |-> "SpoolSetError(NoSuchSpoolId)", key |-> NoKey]

\* --------------------------------------------------------------- MultiSpool

\* A lookup that reports a missing spool with the SpoolSet's error.
GetSpoolSetError(m, spool_id) ==
    IF Has(m, spool_id) THEN "Ok" ELSE "SpoolSetError(NoSuchSpoolId)"

\* MultiSpool::get_mut_spool and MultiSpool::get_spool.
GetSpool(m, spool_id) ==
    IF Has(m, spool_id) THEN "Ok" ELSE "NoSuchSpool"

\* What create_spool returns once the spool is stored.
CreateSpoolReturn(spool_id) == "NoSuchSpool"

\* A MultiSpool::new that opens only the listed spools whose directory it
\* finds, and leaves the others out of the map.
MultiSpoolNewSkipsMissing(prim, mta, ds, data, end_keys) ==
    LET spool_set == SpoolSetEnsureConsistency(prim, mta)
        found == spool_set.db \cap ds
        opened == [i \in found |-> SpoolNew(data[i], end_keys[i])]
    IN  [ss_db |-> spool_set.db,
         ss_meta |-> spool_set.meta,
         dirs |-> ds,
         meta |-> [i \in SpoolIds |->
                      IF i \in found THEN opened[i].meta ELSE end_keys[i]],
         map |-> { <<i, opened[i].spool>> : i \in found }]

\* MultiSpool::new over a base directory: the SpoolSet is opened and repaired,
\* then every spool it lists is opened.  A spool whose open returns CorruptSpool
\* is deleted from the SpoolSet and its path removed; the others go to the map.
MultiSpoolNew(prim, mta, ds, data, end_keys) ==
    LET listed == SpoolSetEnsureConsistency(prim, mta)
        corrupt == { i \in listed.db :
                        EnsureConsistencyResult(data[i], end_keys[i])
                            = "SpoolError(CorruptSpool)" }
        spool_set == [db |-> listed.db \ corrupt,
                      meta |-> { p \in listed.meta : p[1] \notin corrupt }]
        opened == [i \in spool_set.db |-> SpoolNew(data[i], end_keys[i])]
    IN  [ss_db |-> spool_set.db,
         ss_meta |-> spool_set.meta,
         dirs |-> (ds \cup listed.db) \ corrupt,
         meta |-> [i \in SpoolIds |->
                      IF i \in spool_set.db THEN opened[i].meta ELSE end_keys[i]],
         map |-> { <<i, opened[i].spool>> : i \in spool_set.db }]

\* The state after MultiSpool::new on an empty base directory.
Init ==
    /\ ss_db = {}
    /\ ss_meta = {}
    /\ dirs = {}
    /\ db = [i \in SpoolIds |-> {}]
    /\ meta = [i \in SpoolIds |-> None]
    /\ map = {}
    /\ log = [i \in SpoolIds |-> <<>>]
    /\ result = Res("new", NoId, NoKey, NoSig, NoMid, NoMsg, "Ok", None)

\* MultiSpool::create_spool; spool_id is what the generator draws.  When the
\* drawn id is the id of a spool this MultiSpool holds open, sled may refuse
\* the second open of the directory (opened = FALSE) or grant it.
create_spool(public_key, signature, spool_id, opened) ==
    /\ opened \/ Has(map, spool_id)
    /\ IF ~Verify(public_key, to_bytes(public_key), signature)
       THEN /\ result' = Res("create_spool", spool_id, public_key, signature, NoMid,
                             NoMsg, "SignatureError", None)
            /\ UNCHANGED << disk, map, log >>
       ELSE LET put == SpoolSetPut(ss_db, ss_meta, spool_id, public_key)
                new == SpoolNew(db[spool_id], meta[spool_id])
            IN  /\ ss_db' = put.db
                /\ ss_meta' = put.meta
                /\ IF Has(map, spool_id) /\ ~opened
                   THEN /\ result' = Res("create_spool", spool_id, public_key,
                                         signature, NoMid, NoMsg,
                                         "SpoolError(SledError)", None)
                        /\ UNCHANGED << dirs, db, meta, map, log >>
                   ELSE /\ dirs' = dirs \cup {spool_id}
                        /\ meta' = [meta EXCEPT ![spool_id] = new.meta]
                        /\ map' = Set(map, spool_id, new.spool)
                        /\ log' = IF Has(map, spool_id) THEN log
                                  ELSE [log EXCEPT ![spool_id] = <<>>]
                        /\ result' = Res("create_spool", spool_id, public_key,
                                         signature, NoMid, NoMsg,
                                         CreateSpoolReturn(spool_id), None)
                        /\ UNCHANGED db

\* MultiSpool::purge_spool.
purge_spool(spool_id, signature) ==
    LET pub_key == GetPublicKey(ss_meta, spool_id)
        status == IF pub_key.status # "Ok" THEN pub_key.status
                  ELSE IF ~Verify(pub_key.key, to_bytes(pub_key.key), signature)
                       THEN "SignatureError"
                  ELSE GetSpool(map, spool_id)
    IN  /\ result' = Res("purge_spool", spool_id, NoKey, signature, NoMid, NoMsg,
                         status, None)
        /\ IF status = "Ok"
           THEN LET purged == SpoolPurge(Get(map, spool_id))
                    del == SpoolSetDelete(ss_db, ss_meta, spool_id)
                IN  /\ db' = [db EXCEPT ![spool_id] = purged.db]
                    /\ meta' = [meta EXCEPT ![spool_id] = purged.meta]
                    /\ ss_db' = del.db
                    /\ ss_meta' = del.meta
                    /\ map' = Del(map, spool_id)
                    /\ log' = [log EXCEPT ![spool_id] = <<>>]
                    /\ UNCHANGED dirs
           ELSE UNCHANGED << disk, map, log >>

\* The appends the model follows: those that assign a sequence number up to
\* MaxLastKey, and those at the end of the u32 range.
InRange(last_key) ==
    \/ ~Gt32(NextKey(last_key), U32(MaxLastKey))
    \/ last_key \in { Some(U32Max), Some(Dec32(U32Max)) }

\* MultiSpool::append_to_spool.  `last_key + 1` at u32::MAX wraps in a release
\* build (wraps = TRUE) and panics in a debug build.
append_to_spool(spool_id, message, wraps) ==
    LET status == GetSpool(map, spool_id)
        overflow == status = "Ok" /\ Get(map, spool_id).last_key = Some(U32Max)
    IN  /\ wraps \/ overflow
        /\ status = "Ok" => InRange(Get(map, spool_id).last_key)
        /\ IF status = "Ok" /\ ~(overflow /\ ~wraps)
           THEN LET app == SpoolAppend(Get(map, spool_id), db[spool_id],
                                       meta[spool_id], message)
                IN  /\ db' = [db EXCEPT ![spool_id] = app.db]
                    /\ meta' = [meta EXCEPT ![spool_id] = app.meta]
                    /\ map' = Set(map, spool_id, app.spool)
                    /\ log' = [log EXCEPT ![spool_id] =
                                  Append(@, [seq |-> app.spool.last_key[1],
                                             msg |-> message])]
                    /\ result' = Res("append_to_spool", spool_id, NoKey, NoSig,
                                     NoMid, message, "Ok", None)
                    /\ UNCHANGED << ss_db, ss_meta, dirs >>
           ELSE /\ result' = Res("append_to_spool", spool_id, NoKey, NoSig, NoMid,
                                 message, IF overflow THEN "panic" ELSE status, None)
                /\ UNCHANGED << disk, map, log >>

\* MultiSpool::read_from_spool.
read_from_spool(spool_id, signature, message_id) ==
    LET pub_key == GetPublicKey(ss_meta, spool_id)
        read == IF pub_key.status # "Ok"
                THEN [status |-> pub_key.status, value |-> None]
                ELSE IF ~Verify(pub_key.key, to_bytes(pub_key.key), signature)
                     THEN [status |-> "SignatureError", value |-> None]
                ELSE IF GetSpool(map, spool_id) # "Ok"
                     THEN [status |-> GetSpool(map, spool_id), value |-> None]
                ELSE SpoolRead(db[spool_id], message_id)
    IN  /\ result' = Res("read_from_spool", spool_id, NoKey, signature, message_id,
                         NoMsg, read.status, read.value)
        /\ UNCHANGED << disk, map, log >>

\* The MultiSpool is dropped and MultiSpool::new runs again over the base
\* directory: a restart of the server.
Restart ==
    LET new == MultiSpoolNew(ss_db, ss_meta, dirs, db, meta)
    IN  /\ ss_db' = new.ss_db
        /\ ss_meta' = new.ss_meta
        /\ dirs' = new.dirs
        /\ meta' = new.meta
        /\ map' = new.map
        /\ result' = Res("restart", NoId, NoKey, NoSig, NoMid, NoMsg, "Ok", None)
        /\ UNCHANGED << db, log >>

\* The process dies inside Spool::append, after the data tree's write and
\* before the END_KEY merge; the server is started again and MultiSpool::new
\* runs over what is on disk.
crash_in_append(spool_id, message) ==
    /\ Has(map, spool_id)
    /\ ~Gt32(NextKey(Get(map, spool_id).last_key), U32(MaxLastKey))
    /\ LET next == NextKey(Get(map, spool_id).last_key)
           written == [db EXCEPT ![spool_id] = Set(@, be32(next), message)]
           new == MultiSpoolNew(ss_db, ss_meta, dirs, written, meta)
       IN  /\ db' = written
           /\ ss_db' = new.ss_db
           /\ ss_meta' = new.ss_meta
           /\ dirs' = new.dirs
           /\ meta' = new.meta
           /\ map' = new.map
    /\ result' = Res("crash_in_append", spool_id, NoKey, NoSig, NoMid, message,
                     "crashed", None)
    /\ UNCHANGED log

\* ----------------------------------------------------------- specifications

\* The calls a client of the MultiSpool can make, and restarts of the server.
Next ==
    \/ \E pk \in PublicKeys, sig \in Signatures, id \in SpoolIds, opened \in BOOLEAN :
          create_spool(pk, sig, id, opened)
    \/ \E id \in SpoolIds, sig \in Signatures : purge_spool(id, sig)
    \/ \E id \in SpoolIds, m \in Messages, wraps \in BOOLEAN :
          append_to_spool(id, m, wraps)
    \/ \E id \in SpoolIds, sig \in Signatures, mid \in MessageIds :
          read_from_spool(id, sig, mid)
    \/ Restart

Spec == Init /\ [][Next]_vars

\* The same, with crashes of the process inside an append.
CrashNext ==
    \/ Next
    \/ \E id \in SpoolIds, m \in Messages : crash_in_append(id, m)

CrashSpec == Init /\ [][CrashNext]_vars

\* A spool at the end of the u32 range: 2^32 - 1 appends were made to idA,
\* owned by alice, and last_key is u32::MAX - 1.  Of the data tree, which
\* holds every key up to last_key, the model follows the first key and the
\* last; of the history, the last append.
FullInit ==
    /\ ss_db = {"idA"}
    /\ ss_meta = { <<"idA", to_bytes("alice")>> }
    /\ dirs = {"idA"}
    /\ db = [i \in SpoolIds |->
                IF i = "idA"
                THEN { <<be32(U32(0)), "m1">>, <<be32(Dec32(U32Max)), "m1">> }
                ELSE {}]
    /\ meta = [i \in SpoolIds |->
                  IF i = "idA" THEN Some(be32(Dec32(U32Max))) ELSE None]
    /\ map = { <<"idA", [last_key |-> Some(Dec32(U32Max))]>> }
    /\ log = [i \in SpoolIds |->
                 IF i = "idA" THEN << [seq |-> Dec32(U32Max), msg |-> "m1"] >>
                 ELSE <<>>]
    /\ result = Res("new", NoId, NoKey, NoSig, NoMid, NoMsg, "Ok", None)

\* The message ids read at the end of the range.
FullMessageIds == MessageIds \cup { be32(Dec32(U32Max)), be32(U32Max) }

\* Appends to the full spool, and reads of it.
FullNext ==
    \/ \E m \in Messages, wraps \in BOOLEAN : append_to_spool("idA", m, wraps)
    \/ \E sig \in Signatures, mid \in FullMessageIds :
          read_from_spool("idA", sig, mid)

FullSpec == FullInit /\ [][FullNext]_vars

\* ------------------------------------------- the full spool is opened again

\* The data tree of the full spool holds every key from its first to its
\* last; the model follows the keys at the two ends.  FullContains is
\* contains_key on that tree.
FullContains(d, key) ==
    \E a \in Keys(d), b \in Keys(d) :
        /\ ~Gt32(read_u32(a), key)
        /\ ~Gt32(key, read_u32(b))

\* The largest key of the tree.
FullLastKey(d) ==
    read_u32(CHOOSE a \in Keys(d) :
                \A b \in Keys(d) : ~Gt32(read_u32(b), read_u32(a)))

\* The server is started again: MultiSpool::new opens idA, Spool::new calls
\* ensure_consistency, which reads the END_KEY into raw_last_key and enters
\* its loop.  The record holds raw_last_key while the loop runs.
restart_begin ==
    /\ result.status # "running"
    /\ meta["idA"] # None
    /\ map' = {}
    /\ result' = Res("ensure_consistency", "idA", NoKey, NoSig, meta["idA"][1],
                     NoMsg, "running", None)
    /\ UNCHANGED << disk, log >>

\* The loop of Spool::ensure_consistency.  `last_key += 1` at u32::MAX wraps in
\* a release build (wraps = TRUE) and panics in a debug build.  While the next
\* key is in the data tree the loop goes on: one step of the model takes it to
\* the next key the model follows, or through the keys in between to the last
\* key of the tree.  When the next key is absent, last_key and END_KEY are set
\* and Spool::new returns the Spool to MultiSpool::new.
repair_step(wraps) ==
    /\ result.op = "ensure_consistency"
    /\ result.status = "running"
    /\ LET prev_key == read_u32(result.mid)
           last_key == Inc32(prev_key)
       IN  IF prev_key = U32Max /\ ~wraps
           THEN /\ result' = [result EXCEPT !.status = "panic"]
                /\ UNCHANGED << disk, map, log >>
           ELSE IF FullContains(db["idA"], last_key)
           THEN /\ result' = [result EXCEPT !.mid =
                                 IF Has(db["idA"], be32(last_key))
                                 THEN be32(last_key)
                                 ELSE be32(FullLastKey(db["idA"]))]
                /\ UNCHANGED << disk, map, log >>
           ELSE /\ meta' = [meta EXCEPT !["idA"] = Some(be32(prev_key))]
                /\ map' = { <<"idA", [last_key |-> Some(prev_key)]>> }
                /\ result' = [result EXCEPT !.status = "Ok"]
                /\ UNCHANGED << ss_db, ss_meta, dirs, db, log >>

\* The calls on the full spool while its process runs, and the restarts.
FullRestartNext ==
    \/ result.status \notin {"running", "panic"} /\ FullNext
    \/ restart_begin
    \/ \E wraps \in BOOLEAN : repair_step(wraps)

\* Once entered, the loop takes its steps: the thread that runs it is not
\* held up by anything.
FullRestartSpec ==
    /\ FullInit
    /\ [][FullRestartNext]_vars
    /\ WF_vars(\E wraps \in BOOLEAN : repair_step(wraps))

\* --------------------------------------- crashes inside create and purge

\* The points of create_spool at which the process may die with something
\* written: inside SpoolSet::put after the primary tree's write, after the
\* put, and after Spool::new has made the directory.
CreateSteps == { "put.db", "put", "Spool::new" }

\* The points of purge_spool: inside Spool::purge after drop_tree, after the
\* purge, inside SpoolSet::delete after the primary tree's delete, and after
\* the delete.
PurgeSteps == { "drop_tree", "purge", "delete.db", "delete" }

\* The process dies inside create_spool at the given point; the server is
\* started again and MultiSpool::new runs over what is on disk.
crash_in_create(public_key, signature, spool_id, step) ==
    /\ Verify(public_key, to_bytes(public_key), signature)
    /\ LET put == SpoolSetPut(ss_db, ss_meta, spool_id, public_key)
           prim == put.db
           mta == IF step = "put.db" THEN ss_meta ELSE put.meta
           ds == IF step = "Spool::new" THEN dirs \cup {spool_id} ELSE dirs
           new == MultiSpoolNew(prim, mta, ds, db, meta)
       IN  /\ ss_db' = new.ss_db
           /\ ss_meta' = new.ss_meta
           /\ dirs' = new.dirs
           /\ meta' = new.meta
           /\ map' = new.map
    /\ result' = Res("crash_in_create", spool_id, public_key, signature, NoMid,
                     step, "crashed", None)
    /\ UNCHANGED << db, log >>

\* The process dies inside purge_spool at the given point, and the server is
\* started again.  The history of a spool whose purge began is dropped.
crash_in_purge(spool_id, signature, step) ==
    LET pub_key == GetPublicKey(ss_meta, spool_id)
    IN  /\ pub_key.status = "Ok"
        /\ Verify(pub_key.key, to_bytes(pub_key.key), signature)
        /\ GetSpool(map, spool_id) = "Ok"
        /\ LET purged == SpoolPurge(Get(map, spool_id))
               del == SpoolSetDelete(ss_db, ss_meta, spool_id)
               data == IF step = "drop_tree" THEN db
                       ELSE [db EXCEPT ![spool_id] = purged.db]
               end_keys == [meta EXCEPT ![spool_id] = purged.meta]
               prim == IF step \in {"delete.db", "delete"} THEN del.db ELSE ss_db
               mta == IF step = "delete" THEN del.meta ELSE ss_meta
               new == MultiSpoolNew(prim, mta, dirs, data, end_keys)
           IN  /\ db' = data
               /\ ss_db' = new.ss_db
               /\ ss_meta' = new.ss_meta
               /\ dirs' = new.dirs
               /\ meta' = new.meta
               /\ map' = new.map
               /\ log' = [log EXCEPT ![spool_id] = <<>>]
        /\ result' = Res("crash_in_purge", spool_id, NoKey, signature, NoMid,
                         step, "crashed", None)

\* Creates, purges and appends, and the crashes inside a create or a purge.
\* The calls carry the signature of some key over its own bytes, and the
\* appends one message: a call refused for its signature writes nothing, and
\* no step here reads what a message holds.
CreatePurgeCrashNext ==
    \/ \E pk \in PublicKeys, id \in SpoolIds, opened \in BOOLEAN :
          create_spool(pk, Sign(pk, to_bytes(pk)), id, opened)
    \/ \E id \in SpoolIds, pk \in PublicKeys :
          purge_spool(id, Sign(pk, to_bytes(pk)))
    \/ \E id \in SpoolIds, wraps \in BOOLEAN : append_to_spool(id, "m1", wraps)
    \/ \E pk \in PublicKeys, id \in SpoolIds, step \in CreateSteps :
          crash_in_create(pk, Sign(pk, to_bytes(pk)), id, step)
    \/ \E id \in SpoolIds, pk \in PublicKeys, step \in PurgeSteps :
          crash_in_purge(id, Sign(pk, to_bytes(pk)), step)

CreatePurgeCrashSpec == Init /\ [][CreatePurgeCrashNext]_vars

\* ------------------------------------------------------ a Spool on its own

\* The path of a Spool that is opened and used directly, as the tests of
\* spool.rs do: no SpoolSet and no MultiSpool are involved.  The Spool object
\* is kept in map under this path; its trees are db[SpoolPath] and
\* meta[SpoolPath].
SpoolPath == "idA"

\* The Spool's handle of its metadata tree is the one Spool::new opened;
\* Spool::purge drops that tree and keeps the handle.  The tree is absent while
\* last_key is set only after a purge on this object.
MetaDropped(spool, end_key) == spool.last_key # None /\ end_key = None

\* The state after Spool::new on a fresh path.
SpoolInit ==
    /\ ss_db = {}
    /\ ss_meta = {}
    /\ dirs = {SpoolPath}
    /\ db = [i \in SpoolIds |-> {}]
    /\ meta = [i \in SpoolIds |-> None]
    /\ map = { <<SpoolPath, SpoolNew({}, None).spool>> }
    /\ log = [i \in SpoolIds |-> <<>>]
    /\ result = Res("spool_new", SpoolPath, NoKey, NoSig, NoMid, NoMsg, "Ok", None)

\* The Spool is dropped and Spool::new opens the path again.
spool_new ==
    LET new == SpoolNew(db[SpoolPath], meta[SpoolPath])
    IN  /\ meta' = [meta EXCEPT ![SpoolPath] = new.meta]
        /\ map' = Set(map, SpoolPath, new.spool)
        /\ result' = Res("spool_new", SpoolPath, NoKey, NoSig, NoMid, NoMsg,
                         "Ok", None)
        /\ UNCHANGED << ss_db, ss_meta, dirs, db, log >>

\* Spool::append.  After a purge the merge of the END_KEY goes to the handle of
\* the dropped tree: the store may carry it out (merged = TRUE) or refuse it,
\* and then the append returns the store's error after its data write.
spool_append(message, merged) ==
    LET spool == Get(map, SpoolPath)
        dropped == MetaDropped(spool, meta[SpoolPath])
        app == SpoolAppend(spool, db[SpoolPath], meta[SpoolPath], message)
    IN  /\ merged \/ dropped
        /\ ~Gt32(NextKey(spool.last_key), U32(MaxLastKey))
        /\ db' = [db EXCEPT ![SpoolPath] = app.db]
        /\ map' = Set(map, SpoolPath, app.spool)
        /\ IF merged
           THEN /\ meta' = [meta EXCEPT ![SpoolPath] = app.meta]
                /\ log' = [log EXCEPT ![SpoolPath] =
                              Append(@, [seq |-> app.spool.last_key[1],
                                         msg |-> message])]
                /\ result' = Res("spool_append", SpoolPath, NoKey, NoSig, NoMid,
                                 message, "Ok", None)
           ELSE /\ result' = Res("spool_append", SpoolPath, NoKey, NoSig, NoMid,
                                 message, "SpoolError(SledError)", None)
                /\ UNCHANGED << meta, log >>
        /\ UNCHANGED << ss_db, ss_meta, dirs >>

\* Spool::read.
spool_read(message_id) ==
    LET read == SpoolRead(db[SpoolPath], message_id)
    IN  /\ result' = Res("spool_read", SpoolPath, NoKey, NoSig, message_id,
                         NoMsg, read.status, read.value)
        /\ UNCHANGED << disk, map, log >>

\* Spool::purge.
spool_purge ==
    LET purged == SpoolPurge(Get(map, SpoolPath))
    IN  /\ db' = [db EXCEPT ![SpoolPath] = purged.db]
        /\ meta' = [meta EXCEPT ![SpoolPath] = purged.meta]
        /\ map' = Set(map, SpoolPath, purged.spool)
        /\ log' = [log EXCEPT ![SpoolPath] = <<>>]
        /\ result' = Res("spool_purge", SpoolPath, NoKey, NoSig, NoMid, NoMsg,
                         "Ok", None)
        /\ UNCHANGED << ss_db, ss_meta, dirs >>

\* The calls on one Spool: open, append, read and purge.
SpoolNext ==
    \/ spool_new
    \/ \E m \in Messages, merged \in BOOLEAN : spool_append(m, merged)
    \/ \E mid \in MessageIds : spool_read(mid)
    \/ spool_purge

SpoolSpec == SpoolInit /\ [][SpoolNext]_vars

\* ------------------------------------------ the END_KEY and its merges

\* The values merged into the END_KEY: the first sequence numbers, and the
\* two around the boundary of the counter's halves.
MergeValues ==
    { U32(0), U32(1), U32(2), U32(HalfModulus - 1), U32(HalfModulus) }

\* A merge of new_value reaches the END_KEY of the spool: one an append
\* issued, in any order, or one the store replays.  The history keeps the
\* merged value.
merge(new_value) ==
    /\ result.status # "crashed"
    /\ Len(log[SpoolPath]) < MaxMerges
    /\ meta' = [meta EXCEPT ![SpoolPath] =
                    Some(increment_merge(@, be32(new_value)))]
    /\ log' = [log EXCEPT ![SpoolPath] =
                  Append(@, [seq |-> new_value, msg |-> NoMsg])]
    /\ result' = Res("merge", SpoolPath, NoKey, NoSig, be32(new_value), NoMsg,
                     "Ok", None)
    /\ UNCHANGED << ss_db, ss_meta, dirs, db, map >>

\* The process dies inside Spool::append, after the data tree's write and
\* before the END_KEY merge.
spool_append_crash(message) ==
    LET next == NextKey(Get(map, SpoolPath).last_key)
    IN  /\ result.status # "crashed"
        /\ Cardinality(db[SpoolPath]) <= MaxLastKey
        /\ db' = [db EXCEPT ![SpoolPath] = Set(@, be32(next), message)]
        /\ result' = Res("spool_append", SpoolPath, NoKey, NoSig, NoMid,
                         message, "crashed", None)
        /\ UNCHANGED << ss_db, ss_meta, dirs, meta, map, log >>

\* Merges into the END_KEY of one Spool, appends that die before their merge,
\* and opens of the path.
MergeNext ==
    \/ \E v \in MergeValues : merge(v)
    \/ \E m \in Messages : spool_append_crash(m)
    \/ spool_new

MergeSpec == SpoolInit /\ [][MergeNext]_vars

\* --------------------------------------------------- a SpoolSet on its own

\* SpoolSet::has.
SpoolSetHas(prim, spool_id) == spool_id \in prim

\* SpoolSet::put, called on the SpoolSet directly.
spool_set_put(spool_id, public_key) ==
    LET put == SpoolSetPut(ss_db, ss_meta, spool_id, public_key)
    IN  /\ ss_db' = put.db
        /\ ss_meta' = put.meta
        /\ result' = Res("spool_set_put", spool_id, public_key, NoSig, NoMid,
                         NoMsg, "Ok", None)
        /\ UNCHANGED << dirs, db, meta, map, log >>

\* SpoolSet::delete.
spool_set_delete(spool_id) ==
    LET del == SpoolSetDelete(ss_db, ss_meta, spool_id)
    IN  /\ ss_db' = del.db
        /\ ss_meta' = del.meta
        /\ result' = Res("spool_set_delete", spool_id, NoKey, NoSig, NoMid, NoMsg,
                         "Ok", None)
        /\ UNCHANGED << dirs, db, meta, map, log >>

\* SpoolSet::has.
spool_set_has(spool_id) ==
    /\ result' = Res("spool_set_has", spool_id, NoKey, NoSig, NoMid, NoMsg, "Ok",
                     Some(SpoolSetHas(ss_db, spool_id)))
    /\ UNCHANGED << disk, map, log >>

\* SpoolSet::get_public_key.
spool_set_get_public_key(spool_id) ==
    LET pub_key == GetPublicKey(ss_meta, spool_id)
    IN  /\ result' = Res("spool_set_get_public_key", spool_id, NoKey, NoSig,
                         NoMid, NoMsg, pub_key.status,
                         IF pub_key.status = "Ok" THEN Some(pub_key.key) ELSE None)
        /\ UNCHANGED << disk, map, log >>

\* The SpoolSet is dropped and SpoolSet::new opens its path again.
spool_set_new ==
    LET spool_set == SpoolSetEnsureConsistency(ss_db, ss_meta)
    IN  /\ ss_db' = spool_set.db
        /\ ss_meta' = spool_set.meta
        /\ result' = Res("spool_set_new", NoId, NoKey, NoSig, NoMid, NoMsg, "Ok",
                         None)
        /\ UNCHANGED << dirs, db, meta, map, log >>

\* The keys put into the SpoolSet: put takes any key and asks for no signature.
SpoolSetPublicKeys == PublicKeys \cup {"carol"}

\* The calls on one SpoolSet; it starts empty, as Init has it.
SpoolSetNext ==
    \/ \E id \in SpoolIds, pk \in SpoolSetPublicKeys : spool_set_put(id, pk)
    \/ \E id \in SpoolIds : spool_set_delete(id)
    \/ \E id \in SpoolIds : spool_set_has(id)
    \/ \E id \in SpoolIds : spool_set_get_public_key(id)
    \/ spool_set_new

SpoolSetSpec == Init /\ [][SpoolSetNext]_vars

\* ------------------------------------------- a SpoolSet and its crashes

\* The process dies inside SpoolSet::put, after the primary tree's write and
\* before the metadata tree's.
crash_in_put(spool_id, public_key) ==
    /\ result.status # "crashed"
    /\ ss_db' = ss_db \cup {spool_id}
    /\ result' = Res("spool_set_put", spool_id, public_key, NoSig, NoMid, NoMsg,
                     "crashed", None)
    /\ UNCHANGED << ss_meta, dirs, db, meta, map, log >>

\* The process dies inside SpoolSet::delete, after the primary tree's delete
\* and before the metadata tree's.
crash_in_delete(spool_id) ==
    /\ result.status # "crashed"
    /\ ss_db' = ss_db \ {spool_id}
    /\ result' = Res("spool_set_delete", spool_id, NoKey, NoSig, NoMid, NoMsg,
                     "crashed", None)
    /\ UNCHANGED << ss_meta, dirs, db, meta, map, log >>

\* SpoolSet::new opens the path after a crash; the record keeps the id the
\* interrupted call was about.
spool_set_recover ==
    LET spool_set == SpoolSetEnsureConsistency(ss_db, ss_meta)
    IN  /\ result.status = "crashed"
        /\ ss_db' = spool_set.db
        /\ ss_meta' = spool_set.meta
        /\ result' = Res("spool_set_new", result.id, NoKey, NoSig, NoMid, NoMsg,
                         "Ok", None)
        /\ UNCHANGED << dirs, db, meta, map, log >>

\* The calls on one SpoolSet while its process runs, the crashes inside put
\* and delete, and the open that follows a crash.
SpoolSetCrashNext ==
    \/ result.status # "crashed" /\ SpoolSetNext
    \/ \E id \in SpoolIds, pk \in SpoolSetPublicKeys : crash_in_put(id, pk)
    \/ \E id \in SpoolIds : crash_in_delete(id)
    \/ spool_set_recover

SpoolSetCrashSpec == Init /\ [][SpoolSetCrashNext]_vars

\* --------------------------------------------------- a full set of spools

\* SPOOL_SET_SIZE: "the maximum allowed number of spools".
SPOOL_SET_SIZE == 10000

\* A MultiSpool that holds SPOOL_SET_SIZE spools.  The model follows one of
\* them, idA, owned by alice and empty; the others are only counted: no call
\* the model follows names one of them.
OtherSpools == SPOOL_SET_SIZE - 1

SetFullInit ==
    /\ ss_db = {"idA"}
    /\ ss_meta = { <<"idA", to_bytes("alice")>> }
    /\ dirs = {"idA"}
    /\ db = [i \in SpoolIds |-> {}]
    /\ meta = [i \in SpoolIds |-> None]
    /\ map = { <<"idA", SpoolNew({}, None).spool>> }
    /\ log = [i \in SpoolIds |-> <<>>]
    /\ result = Res("new", NoId, NoKey, NoSig, NoMid, NoMsg, "Ok", None)

\* Creates and purges on the full MultiSpool.
SetFullNext ==
    \/ \E pk \in PublicKeys, sig \in Signatures, id \in SpoolIds, opened \in BOOLEAN :
          create_spool(pk, sig, id, opened)
    \/ \E id \in SpoolIds, sig \in Signatures : purge_spool(id, sig)

SetFullSpec == SetFullInit /\ [][SetFullNext]_vars

\* ------------------------------------------------- a spool that lost its data

\* The first sequence number of a spool.
FirstKey == NextKey(None)

\* A base directory in which the spool idA, owned by alice, took one append and
\* then lost the contents of its data tree: its metadata tree still holds the
\* END_KEY, its data tree is empty.
LostData ==
    [ss_db |-> {"idA"},
     ss_meta |-> { <<"idA", to_bytes("alice")>> },
     dirs |-> {"idA"},
     db |-> [i \in SpoolIds |-> {}],
     meta |-> [i \in SpoolIds |->
                  IF i = "idA" THEN Some(be32(FirstKey)) ELSE None]]

\* The state after MultiSpool::new over that base directory.
LostDataInit ==
    LET new == MultiSpoolNew(LostData.ss_db, LostData.ss_meta, LostData.dirs,
                             LostData.db, LostData.meta)
    IN  /\ ss_db = new.ss_db
        /\ ss_meta = new.ss_meta
        /\ dirs = new.dirs
        /\ db = LostData.db
        /\ meta = new.meta
        /\ map = new.map
        /\ log = [i \in SpoolIds |->
                     IF i = "idA" THEN << [seq |-> FirstKey, msg |-> "m1"] >>
                     ELSE <<>>]
        /\ result = Res("new", NoId, NoKey, NoSig, NoMid, NoMsg, "Ok", None)

\* The calls of a client and the restarts of the server, from there.
LostDataSpec == LostDataInit /\ [][Next]_vars

\* ------------------------------------------------ command handlers (lib.rs)

CREATE_SPOOL_COMMAND == 0

PURGE_SPOOL_COMMAND == 1

APPEND_MESSAGE_COMMAND == 2

RETRIEVE_MESSAGE_COMMAND == 3

\* The empty byte vector, vec![]: what a request holds in a field it leaves
\* out and what SpoolResponse::default() holds.  Of the values the model
\* draws for a field, it is the one whose length is not the field's size.
EmptyVec == ""

\* The bytes a request may carry as Signature; Signature::from_bytes accepts
\* all of them but NoSig.
WireSignatures == Signatures \cup {NoSig}

\* The bytes a request may carry as PublicKey; PublicKey::from_bytes accepts
\* those of a key.
WirePublicKeys == { to_bytes(k) : k \in PublicKeys \cup {NoKey} }

\* The bytes a request may carry as SpoolID, MessageID and Message.
WireSpoolIds == SpoolIds \cup {EmptyVec}

WireMessageIds == MessageIds \cup {NoMid}

WireMessages == Messages \cup {EmptyVec}

\* struct SpoolResponse.
SpoolResponse(spool_id, message, status) ==
    [SpoolID |-> spool_id, Message |-> message, Status |-> status]

\* error_response.
error_response(error_message) == SpoolResponse(EmptyVec, EmptyVec, error_message)

\* The response a handler of lib.rs builds from what it decoded and from what
\* the MultiSpool returned; `res` is the record of the handler's call.
Response(res) ==
    IF res.status = "Signature::from_bytes failed"
    THEN error_response("error: invalid signature")
    ELSE IF res.status = "PublicKey::from_bytes failed"
    THEN error_response("error: invalid ed25519 public key")
    ELSE IF res.op = "create_spool"
    THEN IF res.status = "Ok"
         THEN SpoolResponse(res.id, EmptyVec, "OK")
         ELSE error_response("error: invalid create spool failed")
    ELSE IF res.op = "read_from_spool" /\ res.status = "Ok"
    THEN SpoolResponse(res.id, res.value[1], "OK")
    ELSE IF res.status = "Ok"
    THEN SpoolResponse(res.id, EmptyVec, "OK")
    ELSE error_response("error: purge spool failed")

\* A handler that stops before it calls the MultiSpool: a field did not
\* decode, or a slice copy of a field of the wrong length panicked.
Stopped(op, status) ==
    /\ result' = Res(op, NoId, NoKey, NoSig, NoMid, NoMsg, status, None)
    /\ UNCHANGED << disk, map, log >>

\* lib.rs create_spool, on the request's Signature and PublicKey bytes.
lib_create_spool(signature, public_key) ==
    IF signature \notin Signatures
    THEN Stopped("create_spool", "Signature::from_bytes failed")
    ELSE IF from_bytes(public_key) \notin PublicKeys
    THEN Stopped("create_spool", "PublicKey::from_bytes failed")
    ELSE \E id \in SpoolIds, opened \in BOOLEAN :
            create_spool(from_bytes(public_key), signature, id, opened)

\* lib.rs purge_spool.
lib_purge_spool(signature, public_key, spool_id) ==
    IF signature \notin Signatures
    THEN Stopped("purge_spool", "Signature::from_bytes failed")
    ELSE IF from_bytes(public_key) \notin PublicKeys
    THEN Stopped("purge_spool", "PublicKey::from_bytes failed")
    ELSE IF spool_id \notin SpoolIds
    THEN Stopped("purge_spool", "panic")
    ELSE purge_spool(spool_id, signature)

\* lib.rs append_to_spool.
lib_append_to_spool(message, spool_id) ==
    IF message \notin Messages \/ spool_id \notin SpoolIds
    THEN Stopped("append_to_spool", "panic")
    ELSE \E wraps \in BOOLEAN : append_to_spool(spool_id, message, wraps)

\* lib.rs read_from_spool.
lib_read_from_spool(signature, public_key, spool_id, message_id) ==
    IF signature \notin Signatures
    THEN Stopped("read_from_spool", "Signature::from_bytes failed")
    ELSE IF from_bytes(public_key) \notin PublicKeys
    THEN Stopped("read_from_spool", "PublicKey::from_bytes failed")
    ELSE IF spool_id \notin SpoolIds \/ message_id \notin MessageIds
    THEN Stopped("read_from_spool", "panic")
    ELSE read_from_spool(spool_id, signature, message_id)

\* The handlers of lib.rs called on one MultiSpool.
HandlerNext ==
    \/ \E sig \in WireSignatures, pk \in WirePublicKeys : lib_create_spool(sig, pk)
    \/ \E sig \in WireSignatures, pk \in WirePublicKeys, id \in WireSpoolIds :
          lib_purge_spool(sig, pk, id)
    \/ \E m \in WireMessages, id \in WireSpoolIds : lib_append_to_spool(m, id)
    \/ \E sig \in WireSignatures, pk \in WirePublicKeys, id \in WireSpoolIds,
          mid \in WireMessageIds : lib_read_from_spool(sig, pk, id, mid)

HandlerSpec == Init /\ [][HandlerNext]_vars

\* ------------------------------------------------------ front ends (bin/)

\* serde_cbor::to_vec: the encoding of a value.
to_vec(value) == << "cbor", value >>

\* serde_cbor::from_slice: the value the bytes encode, if they encode one.
from_slice(bytes) == IF bytes[1] = "cbor" THEN Some(bytes[2]) ELSE None

\* Bytes that encode nothing.
Malformed == << "garbage" >>

\* struct SpoolRequest.
SpoolRequest(command, spool_id, signature, public_key, message_id, message) ==
    [Command |-> command, SpoolID |-> spool_id, Signature |-> signature,
     PublicKey |-> public_key, MessageID |-> message_id, Message |-> message]

\* struct Request, the envelope the Katzenpost server sends (its ID is not
\* looked at by any front end but for a log line).
Request(payload, has_surb) == [Payload |-> payload, HasSURB |-> has_surb]

\* A command byte that is none of the four commands.
UnknownCommand == 255

Commands ==
    { CREATE_SPOOL_COMMAND, PURGE_SPOOL_COMMAND, APPEND_MESSAGE_COMMAND,
      RETRIEVE_MESSAGE_COMMAND, UnknownCommand }

\* The SpoolRequests the front ends are sent: every command, for every spool
\* id, with a key and a signature, a message id and a message.
ServerSpoolRequests ==
    { SpoolRequest(c, id, sig, to_bytes(pk), be32(U32(0)), "m1") :
         c \in Commands, id \in SpoolIds, sig \in Signatures, pk \in PublicKeys }

\* The envelopes the front ends are sent.
ServerRequests ==
    { Request(p, s) :
         p \in { to_vec(r) : r \in ServerSpoolRequests } \cup {Malformed},
         s \in BOOLEAN }

\* SpoolResponse::default().
DefaultResponse == SpoolResponse(EmptyVec, EmptyVec, "")

\* [0u8; SPOOL_ID_SIZE], the spool id of the gRPC front end's answer to an
\* unknown command.
ZeroSpoolId == "000000000000"

\* The record of a request a front end answered without a handler of lib.rs:
\* the envelope, how the transport call ended, and the Payload of the
\* response envelope if there is one.
Served(front_end, request, status, payload) ==
    /\ result' = [op |-> front_end, request |-> request, status |-> status,
                  payload |-> payload]
    /\ UNCHANGED << disk, map, log >>

\* grpc_spool_server.rs, SpoolService::on_request.  The service holds one
\* MultiSpool in an Arc<Mutex<..>>; only CREATE_SPOOL_COMMAND takes the lock
\* and calls a handler, the arms of the other three commands are empty.
grpc_on_request(req) ==
    IF ~req.HasSURB
    THEN Served("grpc_on_request", req,
                "grpc error: failure, SURB not found with Request", None)
    ELSE IF from_slice(req.Payload) = None
    THEN Served("grpc_on_request", req,
                "grpc error: failure, malformed Request, not valid CBOR", None)
    ELSE LET spool_request == from_slice(req.Payload)[1]
         IN  IF spool_request.Command = CREATE_SPOOL_COMMAND
             THEN lib_create_spool(spool_request.Signature, spool_request.PublicKey)
             ELSE IF spool_request.Command \in
                        { PURGE_SPOOL_COMMAND, APPEND_MESSAGE_COMMAND,
                          RETRIEVE_MESSAGE_COMMAND }
             THEN Served("grpc_on_request", req, "completed",
                         Some(to_vec(DefaultResponse)))
             ELSE Served("grpc_on_request", req, "completed",
                         Some(to_vec(SpoolResponse(ZeroSpoolId, EmptyVec,
                                                   "error: no such command"))))

\* spool_server.rs, handle_spool_request: it is given a MultiSpool by value
\* and calls nothing on it.
handle_spool_request(spool_request, multi_spool) ==
    IF spool_request.Command \in
          { CREATE_SPOOL_COMMAND, PURGE_SPOOL_COMMAND, APPEND_MESSAGE_COMMAND,
            RETRIEVE_MESSAGE_COMMAND }
    THEN DefaultResponse
    ELSE SpoolResponse(spool_request.SpoolID, EmptyVec, "error, invalid command")

\* spool_server.rs, request_handler on POST /request; body is the encoded
\* envelope.  HasSURB is not looked at.  The handler is given
\* multi_spool.clone(), a copy of the map made for this request, and no lock
\* is taken.
http_request_handler(body) ==
    IF from_slice(body) = None
    THEN Served("http_request_handler", body, "empty body", None)
    ELSE LET request == from_slice(body)[1]
             spool_response ==
                 IF from_slice(request.Payload) = None THEN DefaultResponse
                 ELSE handle_spool_request(from_slice(request.Payload)[1], map)
         IN  Served("http_request_handler", request, "completed",
                    Some(to_vec(spool_response)))

\* cbor_spool_server.rs, request_handler on POST /request: the Payload of the
\* request is sent back; the MultiSpool (in an Arc, with no lock) is not used.
cbor_request_handler(body) ==
    IF from_slice(body) = None
    THEN Served("cbor_request_handler", body, "empty body", None)
    ELSE LET request == from_slice(body)[1]
         IN  Served("cbor_request_handler", request, "completed",
                    Some(request.Payload))

\* The bodies the HTTP front ends are sent.
ServerBodies == { to_vec(req) : req \in ServerRequests } \cup {Malformed}

\* The three front ends over one data directory.
ServerNext ==
    \/ \E req \in ServerRequests : grpc_on_request(req)
    \/ \E body \in ServerBodies : http_request_handler(body)
    \/ \E body \in ServerBodies : cbor_request_handler(body)

ServerSpec == Init /\ [][ServerNext]_vars

\* ------------------------------------------------------------------- claims

\* The signature the owner of `pk` makes to prove possession of the key.
OwnerSignature(pk) == Sign(pk, to_bytes(pk))

\* The key the SpoolSet stores for a spool id.
StoredKey(spool_id) == from_bytes(Get(ss_meta, spool_id))

\* C1: on a spool created fresh, with no purge since, the k-th append
\* (counting from 0) was given sequence number k, the data tree holds its
\* message under be32(k), and a read of be32(k) by the owner returns it.
C1_AppendReadRoundTrip ==
    \A id \in Keys(map) : \A k \in 1 .. Len(log[id]) :
        /\ log[id][k].seq = U32(k - 1)
        /\ SpoolRead(db[id], be32(U32(k - 1)))
              = [status |-> "Ok", value |-> Some(log[id][k].msg)]
        /\ ( /\ result.op = "read_from_spool"
             /\ result.id = id
             /\ result.mid = be32(U32(k - 1))
             /\ result.sig = OwnerSignature(StoredKey(id)) )
           => result.status = "Ok" /\ result.value = Some(log[id][k].msg)

\* C1 witness: after two appends the second message was read back under id 1.
C1_Witness ==
    /\ result.op = "read_from_spool"
    /\ result.status = "Ok"
    /\ result.mid = be32(U32(1))
    /\ Len(log[result.id]) = 2
    /\ result.value = Some(log[result.id][2].msg)
    /\ log[result.id][1].msg # log[result.id][2].msg

\* C2: the sequence numbers given to the successful appends on a spool are
\* strictly increasing, so no two appends receive the same one.
C2_StrictlyIncreasing ==
    \A id \in SpoolIds : \A i, j \in 1 .. Len(log[id]) :
        i < j => Gt32(log[id][j].seq, log[id][i].seq)

\* C3: a message stored under a key stays there, unchanged, through every step
\* that is not a successful purge of its spool.
C3_MessagesImmutable ==
    [][ \A id \in SpoolIds : \A p \in db[id] :
          \/ p \in db'[id]
          \/ /\ result'.op = "purge_spool"
             /\ result'.id = id
             /\ result'.status = "Ok" ]_vars

\* C4: a create_spool whose signature verifies, and whose stores do not fail,
\* returns Ok, and the id maps to the key and to an empty Spool.
C4_CreateReturnsId ==
    ( /\ result.op = "create_spool"
      /\ result.sig = OwnerSignature(result.pk)
      /\ result.status # "SpoolError(SledError)" )
    => /\ result.status = "Ok"
       /\ Has(ss_meta, result.id)
       /\ Get(ss_meta, result.id) = to_bytes(result.pk)
       /\ Has(map, result.id)

\* C5: a purge_spool of an existing spool id succeeds exactly when the
\* signature is the owner's over the stored key; otherwise it returns the
\* signature error and leaves the stores and the map as they were.
C5_PurgeSignatureBinding ==
    [][ ( /\ result'.op = "purge_spool"
          /\ Has(ss_meta, result'.id)
          /\ Has(map, result'.id) )
        => LET valid == result'.sig = OwnerSignature(StoredKey(result'.id))
           IN  /\ (result'.status = "Ok") <=> valid
               /\ ~valid => /\ result'.status = "SignatureError"
                             /\ UNCHANGED << disk, map >> ]_vars

\* C5 witness: a purge with another key's signature was refused on a spool
\* that holds messages.
C5_Witness ==
    /\ result.op = "purge_spool"
    /\ result.status = "SignatureError"
    /\ Has(map, result.id)
    /\ db[result.id] # {}

\* C6: a read_from_spool returns a message only under the owner's signature;
\* any other signature on an existing id yields the signature error and no
\* bytes, whatever the message id; and a read changes nothing.
C6_ReadRequiresSignature ==
    [][ result'.op = "read_from_spool"
        => /\ UNCHANGED << disk, map >>
           /\ result'.value # None
                => /\ Has(ss_meta, result'.id)
                   /\ result'.sig = OwnerSignature(StoredKey(result'.id))
           /\ ( /\ Has(ss_meta, result'.id)
                /\ result'.sig # OwnerSignature(StoredKey(result'.id)) )
                => /\ result'.status = "SignatureError"
                   /\ result'.value = None ]_vars

\* C6 witness: a read of a stored message was refused for its signature.
C6_Witness ==
    /\ result.op = "read_from_spool"
    /\ result.status = "SignatureError"
    /\ result.value = None
    /\ Has(db[result.id], result.mid)

\* C7: after a successful purge_spool the data is cleared, the directory of
\* the spool is gone, and the id is in neither tree of the SpoolSet nor in map.
C7_PurgeRemovesEverything ==
    (result.op = "purge_spool" /\ result.status = "Ok")
    => /\ db[result.id] = {}
       /\ meta[result.id] = None
       /\ result.id \notin dirs
       /\ result.id \notin ss_db
       /\ ~Has(ss_meta, result.id)
       /\ ~Has(map, result.id)

\* C8: a purge_spool of an id that is not present returns NoSuchSpool,
\* whatever the signature, and changes nothing.
C8_PurgeAbsentNoSuchSpool ==
    [][ ( /\ result'.op = "purge_spool"
          /\ result'.id \notin ss_db
          /\ ~Has(map, result'.id) )
        => /\ result'.status = "NoSuchSpool"
           /\ UNCHANGED << disk, map >> ]_vars

\* C9: an append_to_spool to an id that is not in map fails with NoSuchSpool
\* and changes nothing; to an id in map it stores the message under the next
\* sequence number, and no signature is asked for.
C9_AppendLooksUpSpool ==
    [][ result'.op = "append_to_spool"
        => IF ~Has(map, result'.id)
           THEN /\ result'.status = "NoSuchSpool"
                /\ UNCHANGED << disk, map >>
           ELSE /\ result'.status = "Ok"
                /\ result'.sig = NoSig
                /\ Has(map', result'.id)
                /\ << be32(Get(map', result'.id).last_key[1]), result'.msg >>
                      \in db'[result'.id] ]_vars

\* C9 witness: an append to a purged spool id failed with NoSuchSpool.
C9_Witness ==
    /\ result.op = "append_to_spool"
    /\ result.status = "NoSuchSpool"
    /\ result.id \in dirs
    /\ ~Has(map, result.id)

\* C10: a create_spool whose signature is not the key's own over its bytes
\* fails with SignatureError and leaves the stores and the map as they were.
C10_CreateBadSignature ==
    [][ ( /\ result'.op = "create_spool"
          /\ result'.sig # OwnerSignature(result'.pk) )
        => /\ result'.status = "SignatureError"
           /\ UNCHANGED << disk, map >> ]_vars

\* C10 witness: a create_spool was refused for its signature while a spool
\* exists.
C10_Witness ==
    /\ result.op = "create_spool"
    /\ result.status = "SignatureError"
    /\ map # {}

\* C11: a read of a message id whose position is beyond last_key, or that the
\* data tree does not hold, fails with NoSuchMessage; and a read, whatever it
\* returns, leaves the data tree, the metadata and last_key as they were.
C11_ReadBeyondLastKey ==
    [][ ( /\ result'.op = "read_from_spool"
          /\ Has(map, result'.id)
          /\ Has(ss_meta, result'.id)
          /\ result'.sig = OwnerSignature(StoredKey(result'.id)) )
        => LET last_key == Get(map, result'.id).last_key
               beyond == \/ last_key = None
                         \/ Gt32(read_u32(result'.mid), last_key[1])
           IN  /\ UNCHANGED << disk, map >>
               /\ (beyond \/ ~Has(db[result'.id], result'.mid))
                     => /\ result'.status = "SpoolError(NoSuchMessage)"
                        /\ result'.value = None ]_vars

\* C12: a restart (the MultiSpool dropped, MultiSpool::new run again over the
\* base directory) keeps the set of spool ids and the last_key of every spool,
\* every message appended before is read back unchanged under its sequence
\* number, and an append that follows the restart is given the number after
\* that of the last append before it.
C12_RestartDurability ==
    [][ /\ result'.op = "restart"
           => /\ Keys(map') = Keys(map)
              /\ ss_db' = ss_db
              /\ \A id \in Keys(map) :
                    /\ Get(map', id).last_key = Get(map, id).last_key
                    /\ \A k \in 1 .. Len(log[id]) :
                          SpoolRead(db'[id], be32(log[id][k].seq))
                             = [status |-> "Ok", value |-> Some(log[id][k].msg)]
        /\ ( /\ result.op = "restart"
             /\ result'.op = "append_to_spool"
             /\ result'.status = "Ok"
             /\ log[result'.id] # <<>> )
           => LET before == log[result'.id]
                  after == log'[result'.id]
              IN  /\ after[Len(after)].seq = Inc32(before[Len(before)].seq)
                  /\ << be32(after[Len(after)].seq), result'.msg >>
                        \in db'[result'.id] ]_vars

\* C12 witness: a restart found two spools, one of them holding two messages,
\* and opened it at last_key = 1.
C12_Witness ==
    /\ result.op = "restart"
    /\ Keys(map) = SpoolIds
    /\ \E id \in SpoolIds :
          /\ Len(log[id]) = 2
          /\ Get(map, id).last_key = Some(U32(1))
          /\ log[id][1].msg # log[id][2].msg

\* C13: when an append dies after its data write and before its END_KEY
\* update, the reopened spool has last_key equal to the largest key of the
\* data tree, which is the key of that append: its message is kept and the
\* next append is given a key the data tree does not hold.
C13_CrashRecovery ==
    result.op = "crash_in_append"
    => /\ Has(map, result.id)
       /\ LET last_key == Get(map, result.id).last_key
              d == db[result.id]
          IN  /\ last_key # None
              /\ \A p \in d : ~Gt32(read_u32(p[1]), last_key[1])
              /\ << be32(last_key[1]), result.msg >> \in d
              /\ ~Has(d, be32(Inc32(last_key[1])))

\* C14: between the calls on a Spool, the data tree holds exactly the keys
\* 1, ..., last_key (none when last_key is None), and an END_KEY that is
\* present holds the big-endian bytes of last_key.
C14_SpoolInvariant ==
    LET spool == Get(map, SpoolPath)
        positions == IF spool.last_key = None THEN {}
                     ELSE { k \in 1 .. (MaxLastKey + 1) :
                               ~Gt32(U32(k), spool.last_key[1]) }
    IN  /\ Keys(db[SpoolPath]) = { be32(U32(k)) : k \in positions }
        /\ meta[SpoolPath] # None
              => /\ spool.last_key # None
                 /\ meta[SpoolPath][1] = be32(spool.last_key[1])

\* C15: between the calls on a Spool, last_key is None exactly when the spool
\* holds no message, and otherwise it is the largest sequence number written.
C15_LastKeyNoneIffEmpty ==
    LET spool == Get(map, SpoolPath)
        d == db[SpoolPath]
    IN  /\ (spool.last_key = None) <=> (d = {})
        /\ spool.last_key # None
              => /\ Has(d, be32(spool.last_key[1]))
                 /\ \A p \in d : ~Gt32(read_u32(p[1]), spool.last_key[1])

C17_SpoolSetKeyEquality ==
    [][ LET id == result'.id
            others(tree) == { p \in tree : p[1] # id }
        IN  /\ Keys(ss_meta') = ss_db'
            /\ result'.op = "spool_set_put"
                  => /\ ss_db' = ss_db \cup {id}
                     /\ << id, to_bytes(result'.pk) >> \in ss_meta'
                     /\ others(ss_meta') = others(ss_meta)
            /\ result'.op = "spool_set_delete"
                  => /\ ss_db' = ss_db \ {id}
                     /\ ~Has(ss_meta', id)
                     /\ others(ss_meta') = others(ss_meta)
            /\ result'.op \notin { "spool_set_put", "spool_set_delete" }
                  => UNCHANGED << ss_db, ss_meta >>
            /\ result'.op = "spool_set_has"
                  => result'.value = Some(id \in ss_db)
            /\ result'.op = "spool_set_get_public_key"
                  => IF \E p \in ss_meta : p[1] = id
                     THEN /\ result'.status = "Ok"
                          /\ result'.value # None
                          /\ << id, to_bytes(result'.value[1]) >> \in ss_meta
                     ELSE /\ result'.status = "SpoolSetError(NoSuchSpoolId)"
                          /\ result'.value = None ]_vars

\* C17 witness: a delete removed one id and left the other in both trees.
C17_Witness ==
    /\ result.op = "spool_set_delete"
    /\ result.id \notin ss_db
    /\ ss_db # {}
    /\ Keys(ss_meta) = ss_db

\* C18: a Spool::purge returns Ok in whatever state the Spool is, a purged
\* Spool included: a second purge leaves it as the first did; and after a
\* purge every read, of any message id, returns NoSuchMessage.
C18_PurgeIdempotent ==
    [][ /\ result'.op = "spool_purge"
           => /\ result'.status = "Ok"
              /\ \A mid \in MessageIds : ~Has(db'[SpoolPath], mid)
              /\ LET again == SpoolPurge(Get(map', SpoolPath))
                 IN  /\ again.spool = Get(map', SpoolPath)
                     /\ again.db = db'[SpoolPath]
                     /\ again.meta = meta'[SpoolPath]
        /\ (result.op = "spool_purge" /\ result'.op = "spool_read")
           => /\ result'.status = "SpoolError(NoSuchMessage)"
              /\ result'.value = None ]_vars

\* C18 witness: after appends and a purge, the read of message id 0 returned
\* NoSuchMessage.
C18_Witness ==
    /\ result.op = "spool_read"
    /\ result.mid = be32(U32(0))
    /\ result.status = "SpoolError(NoSuchMessage)"
    /\ Get(map, SpoolPath).last_key = Some(U32(0))
    /\ db[SpoolPath] = {}

\* C19: after Spool::purge the Spool is as a newly created one: last_key is
\* None, the END_KEY is absent, the data tree is empty, and the next append is
\* given the sequence number the first append on a new spool is given.
C19_PurgeGivesFreshSpool ==
    result.op = "spool_purge"
    => LET spool == Get(map, SpoolPath)
           fresh == SpoolNew({}, None).spool
       IN  /\ spool.last_key = None
           /\ meta[SpoolPath] = None
           /\ db[SpoolPath] = {}
           /\ NextKey(spool.last_key) = NextKey(fresh.last_key)

\* C20: an append to a spool whose last_key is u32::MAX fails with SpoolFull
\* and writes nothing: the counter does not wrap to 0 and no message is
\* overwritten.
C20_SpoolFull ==
    [][ ( /\ result'.op = "append_to_spool"
          /\ Has(map, result'.id)
          /\ Get(map, result'.id).last_key = Some(U32Max) )
        => /\ result'.status = "SpoolError(SpoolFull)"
           /\ UNCHANGED << disk, map >> ]_vars

\* C21: a create_spool that draws the id of a spool that exists fails with
\* IoError, and the spool keeps its owner key and its messages: no create
\* replaces the key stored for an id.
C21_CollisionKeepsOwner ==
    [][ ( /\ result'.op = "create_spool"
          /\ result'.sig = OwnerSignature(result'.pk)
          /\ Has(map, result'.id) )
        => /\ result'.status = "IoError"
           /\ ss_meta' = ss_meta
           /\ db' = db
           /\ map' = map ]_vars

\* C22: over creates and purges, a MultiSpool never holds more than
\* SPOOL_SET_SIZE spools: a create_spool on a MultiSpool that holds that many
\* adds none.
C22_MaxSpoolCount ==
    /\ OtherSpools + Cardinality(Keys(map)) <= SPOOL_SET_SIZE
    /\ OtherSpools + Cardinality(ss_db) <= SPOOL_SET_SIZE

\* The front ends.
FrontEnds == { "grpc_on_request", "http_request_handler", "cbor_request_handler" }

\* The record `res` is of a request, carrying a SURB, that a front end of
\* `front_ends` answered and whose payload is a SpoolRequest with `command`.
Asked(res, front_ends, command) ==
    /\ res.op \in front_ends
    /\ res.status = "completed"
    /\ res.request.HasSURB
    /\ from_slice(res.request.Payload) # None
    /\ from_slice(res.request.Payload)[1].Command = command

\* The SpoolRequest of an answered request, and the SpoolResponse sent back.
SpoolRequestOf(res) == from_slice(res.request.Payload)[1]

SpoolResponseOf(res) == from_slice(res.payload[1])[1]

\* C23: every front end runs its requests on the one MultiSpool, one at a
\* time: each append request for a spool, in whatever order two of them are
\* handled, stores its message under a sequence number that no message of the
\* spool has, and keeps the messages stored before.
C23_AppendsSerialized ==
    [][ ( /\ Asked(result', FrontEnds, APPEND_MESSAGE_COMMAND)
          /\ Has(map, SpoolRequestOf(result').SpoolID) )
        => LET id == SpoolRequestOf(result').SpoolID
           IN  /\ db[id] \subseteq db'[id]
               /\ \E mid \in MessageIds :
                     /\ ~Has(db[id], mid)
                     /\ << mid, SpoolRequestOf(result').Message >> \in db'[id] ]_vars

\* C24: what an earlier request created or appended is there for a later one:
\* an append request for a spool id that a create request created is carried
\* out on that spool and answered OK, and a retrieve request of its owner for
\* a stored position returns the message stored there.
C24_LaterRequestsSeeEarlier ==
    [][ /\ ( /\ Asked(result', FrontEnds, APPEND_MESSAGE_COMMAND)
             /\ Has(map, SpoolRequestOf(result').SpoolID) )
           => /\ SpoolResponseOf(result')
                    = SpoolResponse(SpoolRequestOf(result').SpoolID, EmptyVec, "OK")
              /\ Has(map', SpoolRequestOf(result').SpoolID)
        /\ ( /\ Asked(result', FrontEnds, RETRIEVE_MESSAGE_COMMAND)
             /\ Has(map, SpoolRequestOf(result').SpoolID)
             /\ SpoolRequestOf(result').Signature
                   = OwnerSignature(StoredKey(SpoolRequestOf(result').SpoolID))
             /\ Has(db[SpoolRequestOf(result').SpoolID],
                    SpoolRequestOf(result').MessageID) )
           => SpoolResponseOf(result')
                 = SpoolResponse(SpoolRequestOf(result').SpoolID,
                                 Get(db[SpoolRequestOf(result').SpoolID],
                                     SpoolRequestOf(result').MessageID),
                                 "OK") ]_vars

\* The status strings of a failed command.
ErrorStatuses ==
    { "error: invalid signature", "error: invalid ed25519 public key",
      "error: invalid create spool failed", "error: purge spool failed",
      "error: no such command" }

\* The front ends that dispatch on the command byte.
Dispatchers == { "grpc_on_request", "http_request_handler" }

\* C25: the dispatcher calls the MultiSpool operation of the command code and
\* answers "OK" when it succeeded and a status beginning with "error: " when
\* it failed: a create request with the key's own signature is answered "OK"
\* with the id of the new spool, and an append request for a spool that
\* exists is answered "OK" with the message stored.
C25_DispatcherRoutes ==
    [][ /\ ( /\ result'.op = "create_spool"
             /\ result'.sig = OwnerSignature(result'.pk)
             /\ ~Has(map, result'.id) )
           => /\ Response(result') = SpoolResponse(result'.id, EmptyVec, "OK")
              /\ Has(map', result'.id)
        /\ \A command \in Commands :
              Asked(result', Dispatchers, command)
              => SpoolResponseOf(result').Status \in {"OK"} \cup ErrorStatuses
        /\ ( /\ Asked(result', Dispatchers, APPEND_MESSAGE_COMMAND)
             /\ Has(map, SpoolRequestOf(result').SpoolID) )
           => /\ SpoolResponseOf(result').Status = "OK"
              /\ db'[SpoolRequestOf(result').SpoolID]
                    # db[SpoolRequestOf(result').SpoolID] ]_vars

\* C26: a request whose command byte is none of 0, 1, 2, 3 is answered with
\* the status "error: no such command" and an all-zero spool id, and no
\* MultiSpool operation runs.
C26_UnknownCommand ==
    [][ Asked(result', Dispatchers, UnknownCommand)
        => /\ SpoolResponseOf(result')
                 = SpoolResponse(ZeroSpoolId, EmptyVec, "error: no such command")
           /\ UNCHANGED << disk, map >> ]_vars

\* C27: a request whose HasSURB flag is false is rejected with an error, its
\* payload is not decoded and answered, and nothing of the spools changes.
C27_RequiresSURB ==
    [][ ( /\ result'.op \in Dispatchers
          /\ result'.status # "empty body"
          /\ ~result'.request.HasSURB )
        => /\ result'.status # "completed"
           /\ result'.payload = None
           /\ UNCHANGED << disk, map >> ]_vars

\* C28: no handler of lib.rs panics on a decoded request, whatever the
\* lengths of its SpoolID, MessageID and Message: it returns a response.
C28_HandlersNeverPanic ==
    result.op \in { "create_spool", "purge_spool", "append_to_spool",
                    "read_from_spool" }
    => /\ result.status # "panic"
       /\ Response(result).Status \in {"OK"} \cup ErrorStatuses


\* The spools a restart finds listed in both trees of the SpoolSet whose
\* metadata tree holds the END_KEY while their data tree is empty.
LostDataSpools ==
    { id \in ss_db \cap Keys(ss_meta) : meta[id] # None /\ db[id] = {} }

\* C29: opening a spool whose metadata tree holds the END_KEY while its data
\* tree is empty fails with CorruptSpool: a restart that finds such a spool
\* does not open it, so the map it builds holds no Spool for that id.
C29_CorruptSpoolDetected ==
    [][ result'.op = "restart"
        => \A id \in LostDataSpools : ~Has(map', id) ]_vars

\* C30: a restart that finds such a spool deletes its id from both trees of
\* the SpoolSet and removes its directory, opens every other listed spool and
\* returns Ok.
C30_CorruptSpoolQuarantined ==
    [][ result'.op = "restart"
        => /\ result'.status = "Ok"
           /\ \A id \in LostDataSpools :
                 /\ id \notin ss_db'
                 /\ ~Has(ss_meta', id)
                 /\ id \notin dirs'
           /\ \A id \in (ss_db \cap Keys(ss_meta)) \ LostDataSpools :
                 Has(map', id) ]_vars


\* C31: SpoolSet::new repairs what a crash between the two writes of put or
\* of delete left: after it both trees hold the ids that were in both trees on
\* disk, and those ids keep their public key bytes.
C31_SpoolSetRepair ==
    [][ result'.op = "spool_set_new"
        => LET both == ss_db \cap Keys(ss_meta)
           IN  /\ ss_db' = both
               /\ Keys(ss_meta') = both
               /\ \A id \in both : Get(ss_meta', id) = Get(ss_meta, id) ]_vars

\* C31: a SpoolSet was opened after a crash; the id of the interrupted call is
\* gone from both trees and another id was kept.
C31_Witness ==
    /\ result.op = "spool_set_new"
    /\ result.id # NoId
    /\ result.id \notin ss_db
    /\ ~Has(ss_meta, result.id)
    /\ ss_db # {}


\* The order of u32 values: a >= b.
AtLeast(a, b) == a.hi > b.hi \/ (a.hi = b.hi /\ a.lo >= b.lo)

\* The END_KEY of the spool at SpoolPath, decoded.
EndKey == read_u32(meta[SpoolPath][1])

\* C32: a merge leaves the larger of the old END_KEY and the merged value (the
\* merged value when there was none); no merge and no open of the spool
\* lowers or removes the END_KEY; and the END_KEY is the largest of the values
\* merged so far, in whatever order they came, or a data key an open found
\* beyond them.
C32_EndKeyMonotonic ==
    /\ [][ /\ result'.op = "merge"
              => LET new == read_u32(result'.mid)
                     old == read_u32(meta[SpoolPath][1])
                 IN  meta'[SpoolPath] =
                        Some(be32(IF meta[SpoolPath] = None THEN new
                                  ELSE IF AtLeast(old, new) THEN old ELSE new))
           /\ ( result'.op \in {"merge", "spool_new"} /\ meta[SpoolPath] # None )
              => /\ meta'[SpoolPath] # None
                 /\ AtLeast(read_u32(meta'[SpoolPath][1]),
                            read_u32(meta[SpoolPath][1])) ]_vars
    /\ [] ( log[SpoolPath] # <<>>
            => /\ meta[SpoolPath] # None
               /\ \A i \in 1 .. Len(log[SpoolPath]) :
                     AtLeast(EndKey, log[SpoolPath][i].seq)
               /\ \/ \E i \in 1 .. Len(log[SpoolPath]) :
                        EndKey = log[SpoolPath][i].seq
                  \/ Has(db[SpoolPath], be32(EndKey)) )

\* C32: the merges of 1 and then of 0 left the END_KEY at 1, and an open that
\* found the data key 2 raised it to 2.
C32_Witness ==
    /\ result.op = "spool_new"
    /\ Len(log[SpoolPath]) = 2
    /\ log[SpoolPath][1].seq = U32(1)
    /\ log[SpoolPath][2].seq = U32(0)
    /\ EndKey = U32(2)


\* C33: after a crash at any point inside create_spool or purge_spool and the
\* restart that follows, the map holds a Spool for exactly the ids the
\* SpoolSet lists in both of its trees, and each of them has its directory.
C33_CrashInCreateOrPurge ==
    result.op \in {"crash_in_create", "crash_in_purge"}
    => /\ Keys(map) = ss_db
       /\ Keys(ss_meta) = ss_db
       /\ ss_db \subseteq dirs

\* C33: the process died between spool_set.put and Spool::new, and after the
\* restart the spool that had no directory yet is in the map.
C33_Witness ==
    /\ result.op = "crash_in_create"
    /\ result.msg = "put"
    /\ Has(map, result.id)
    /\ result.id \in ss_db
    /\ db[result.id] = {}


\* C34: the repair loop of Spool::ensure_consistency terminates: once the loop
\* is entered, ensure_consistency returns Ok, whatever the data tree holds; it
\* neither runs forever nor aborts.
C34_RepairLoopTerminates ==
    ( result.op = "ensure_consistency" /\ result.status = "running" )
    ~> ( result.op = "ensure_consistency" /\ result.status = "Ok" )


\* The calls of a client on one spool of the MultiSpool.
SpoolCalls ==
    { "create_spool", "purge_spool", "append_to_spool", "read_from_spool" }

\* C35: a create, append, purge or read on one spool id leaves every other
\* spool id as it was: its messages, its END_KEY, its Spool in the map and
\* that Spool's last_key, and its entries in both trees of the SpoolSet.
C35_SpoolIsolation ==
    [][ result'.op \in SpoolCalls
        => \A other \in SpoolIds \ {result'.id} :
              /\ db'[other] = db[other]
              /\ meta'[other] = meta[other]
              /\ Has(map', other) = Has(map, other)
              /\ Has(map, other) => Get(map', other) = Get(map, other)
              /\ (other \in ss_db') = (other \in ss_db)
              /\ Has(ss_meta', other) = Has(ss_meta, other)
              /\ Has(ss_meta, other) => Get(ss_meta', other) = Get(ss_meta, other)
              /\ (other \in dirs') = (other \in dirs) ]_vars

\* C35: a spool was purged while another spool, listed and open, held a
\* message; the other spool still holds it.
C35_Witness ==
    /\ result.op = "purge_spool"
    /\ result.status = "Ok"
    /\ \E other \in SpoolIds \ {result.id} :
          /\ Has(map, other)
          /\ Has(ss_meta, other)
          /\ db[other] # {}

====
